---- MODULE Spec2Model ----
(***************************************************************************)
(* The upload / segmentation / analysis handlers of                        *)
(* backend/controllers/uploadController.js as a state machine.             *)
(*                                                                         *)
(* The session store (Redis) is a key-value map with a time to live per    *)
(* key, the bucket (S3) a map from object keys to contents, TEMP_DIR the   *)
(* input files and segment directories of the calls in progress.  Every    *)
(* handler is an async function whose awaits are the points where other    *)
(* handlers' commands can be served, so each handler is a process with a   *)
(* program counter and its own local copy of the parsed session record.    *)
(***************************************************************************)
EXTENDS Integers, Sequences, FiniteSets, TLC

\* ---------------------------------------------------------------- bounds
MaxSessions == 1    \* uuids the generator hands out
MaxReq      == 2    \* requests in flight at the same time
MaxSegs     == 2    \* segment files one transcoder run produces (handlers)
SmallFiles  == 100  \* segment counts 1..SmallFiles of the listing check
OverPad     == 1    \* segment counts up to 10^PadWidth + OverPad in the listing check
Ticks       == 3    \* clock steps in one SessionTTL
MaxClock    == 5    \* clock steps in one behaviour
MaxSize     == 8    \* fileSize values -MaxSize..MaxSize of the request check
MaxCount    == 3    \* chunkCount values 1..MaxCount of the request check

\* ------------------------------------------------------ program constants
PadWidth          == 3      \* chunk_%03d.mp4
SessionTTL        == 7200   \* redis.setex(..., 7200, ...)
ChunkUrlExpiry    == 3600   \* expiresIn of the stored chunk urls
PlaybackUrlExpiry == 86400  \* expiresIn of getChunks / streamVideo urls
PresignedUrlExpiry == 3600  \* PRESIGNED_URL_EXPIRY, the upload url

Vid == 1..MaxSessions
Req == 1..MaxReq
NoVideoId == 0              \* a request body without videoId

\* ------------------------------------------------------------ JS objects
\* A session record is a JS object: a function from its own keys to values.
Has(obj, f) == f \in DOMAIN obj
Assign(obj, f, val) == [k \in DOMAIN obj \cup {f} |-> IF k = f THEN val ELSE obj[k]]
Remove(obj, f) == [k \in DOMAIN obj \ {f} |-> obj[k]]
Null == [null |-> TRUE]
IsNull(obj) == Has(obj, "null")

\* ------------------------------------------------- segment file names
\* Strings are sequences of UTF-16 code units; Array.prototype.sort() without
\* a comparator orders strings by code unit.
RECURSIVE Digits(_)
Digits(k) == IF k < 10 THEN <<48 + k>> ELSE Append(Digits(k \div 10), 48 + (k % 10))

RECURSIVE PadLeft(_, _)
PadLeft(s, w) == IF Len(s) >= w THEN s ELSE PadLeft(<<48>> \o s, w)

ChunkPrefix == <<99, 104, 117, 110, 107, 95>>   \* "chunk_"
ChunkSuffix == <<46, 109, 112, 52>>             \* ".mp4"

\* the name ffmpeg's segment muxer gives segment k under chunk_%03d.mp4
ChunkName(k) == ChunkPrefix \o PadLeft(Digits(k), PadWidth) \o ChunkSuffix

StartsWith(s, p) == Len(s) >= Len(p) /\ SubSeq(s, 1, Len(p)) = p
EndsWith(s, p) == Len(s) >= Len(p) /\ SubSeq(s, Len(s) - Len(p) + 1, Len(s)) = p

RECURSIVE LexLessFrom(_, _, _)
LexLessFrom(a, b, i) ==
    IF i > Len(a) THEN i <= Len(b)
    ELSE IF i > Len(b) THEN FALSE
    ELSE IF a[i] # b[i] THEN a[i] < b[i]
    ELSE LexLessFrom(a, b, i + 1)

\* the default comparator of Array.prototype.sort on strings
LexLess(a, b) == LexLessFrom(a, b, 1)

\* the segment index a chunk file name stands for (the inverse of ChunkName)
RECURSIVE Decimal(_)
Decimal(s) == IF Len(s) = 0 THEN 0 ELSE 10 * Decimal(SubSeq(s, 1, Len(s) - 1)) + (s[Len(s)] - 48)

ChunkIndex(name) == Decimal(SubSeq(name, Len(ChunkPrefix) + 1, Len(name) - Len(ChunkSuffix)))

\* the largest number of segment files a directory holds in this model
FileLimit == 10 ^ PadWidth + OverPad

\* fs.readdirSync(chunksDir) of a directory holding the segment files with the
\* indices in files; the enumeration order is the file system's (here: newest
\* first)
Readdir(files) ==
    LET indices == SelectSeq([i \in 1..FileLimit |-> FileLimit - i], LAMBDA k : k \in files)
    IN  [i \in 1..Len(indices) |-> ChunkName(indices[i])]

\* readdirSync(...).filter(startsWith('chunk_') && endsWith('.mp4')).sort()
ListChunkFiles(files) ==
    SortSeq(SelectSeq(Readdir(files),
                      LAMBDA f : StartsWith(f, ChunkPrefix) /\ EndsWith(f, ChunkSuffix)),
            LexLess)

\* ------------------------------------------------------- object keys, urls
OriginalKey(videoId, fileName) == [videoId |-> videoId, role |-> "original", file |-> fileName]
ChunkKey(videoId, chunkFile) == [videoId |-> videoId, role |-> "chunks", file |-> chunkFile]
PresignedPut(key, expiresIn) == [method |-> "PUT", key |-> key, expiresIn |-> expiresIn]

\* ------------------------------------------------------------------ state
VARIABLES
    store,        \* Redis: key upload:<videoId> -> the stored session record
    ttl,          \* Redis: key upload:<videoId> -> its remaining time to live (s)
    objects,      \* S3 bucket: object key -> content
    tempInput,    \* TEMP_DIR: videoId -> content of <videoId>_input.mp4
    chunksDir,    \* TEMP_DIR: videoId -> segment indices of the files in <videoId>/
    issued,       \* the videoIds uuidv4() has returned
    req,          \* the handler invocations in flight, one per slot
    everChunked,  \* history: the videoIds whose stored status has been chunked
    now           \* the clock (s)

vars == <<store, ttl, objects, tempInput, chunksDir, issued, req, everChunked, now>>
redis == <<store, ttl, everChunked>>
disk == <<tempInput, chunksDir>>

\* getSignedUrl(s3Client, new GetObjectCommand({ Key }), { expiresIn }): the url
\* carries the time it was signed at (X-Amz-Date) and is honoured by S3 for
\* expiresIn seconds from then
PresignedGet(key, expiresIn) ==
    [method |-> "GET", key |-> key, expiresIn |-> expiresIn, signedAt |-> now]

Honoured(url) == now < url.signedAt + url.expiresIn

\* what the client may send as fileName / fileSize / chunkCount (<<>>: the field
\* is missing)
FileNames == {<<>>, <<"">>, <<"a.mp4">>}
FileSizes == {<<>>, <<0>>, <<1000>>}
ChunkCounts == {<<>>, <<MaxCount>>}

\* the sources a client uploads, each named by the number of segments the
\* transcoder cuts it into; Partial is a file the download left incomplete
Videos == 1..MaxSegs
Partial == 0

\* the messages of the errors thrown by a segmentation step (object store,
\* ffprobe, ffmpeg, fs), by the analysis request (axios) and by a Redis command
SegmentationError == "segmentation step failed"
AnalysisError == "analysis request failed"
RedisError == "redis command failed"

\* a slot with no request in it; a slot returns to Idle when its response is sent
\* (produced: the number of segment files ffmpeg wrote in this call; persisted:
\* the last status this call stored)
Idle ==
    [op |-> "idle", pc |-> "idle", videoId |-> NoVideoId, body |-> <<>>, uploadSession |-> Null,
     error |-> "", produced |-> 0, chunkFiles |-> <<>>, chunkS3Keys |-> <<>>,
     chunkPresignedUrls |-> <<>>,
     formData |-> <<>>, analysisResults |-> "", persisted |-> ""]

\* a new request is served in the first free slot (slots are interchangeable)
Free(r) == req[r].pc = "idle" /\ \A q \in Req : q < r => req[q].pc # "idle"

Start(r, op, videoId, pc) == [Idle EXCEPT !.op = op, !.videoId = videoId, !.pc = pc]

\* redis.get(`upload:${videoId}`): the stored record, or null
RedisGet(videoId) == IF videoId \in DOMAIN store THEN store[videoId] ELSE Null

\* redis.setex(`upload:${videoId}`, 7200, JSON.stringify(session)): the whole
\* record replaces what is stored under the key.  Every value put in a record
\* here is a string, a number or an array of those, which JSON.parse returns
\* as stringified.
\* a write that keeps the time to live of a key that exists (SET ... KEEPTTL)
SetexKeepTtl(videoId, seconds, session) ==
    /\ store' = Assign(store, videoId, session)
    /\ ttl' = IF videoId \in DOMAIN ttl THEN ttl ELSE Assign(ttl, videoId, seconds)
    /\ everChunked' = IF session.status = "chunked" THEN everChunked \cup {videoId} ELSE everChunked

Setex(videoId, seconds, session) ==
    /\ store' = Assign(store, videoId, session)
    /\ ttl' = Assign(ttl, videoId, seconds)
    /\ everChunked' = IF session.status = "chunked" THEN everChunked \cup {videoId} ELSE everChunked

\* the server has started: Redis, the bucket and TEMP_DIR hold nothing of it
Init ==
    /\ store = [k \in {} |-> Null]
    /\ ttl = [k \in {} |-> 0]
    /\ objects = [k \in {} |-> 0]
    /\ tempInput = [k \in {} |-> 0]
    /\ chunksDir = [k \in {} |-> {}]
    /\ issued = {}
    /\ req = [r \in Req |-> Idle]
    /\ everChunked = {}
    /\ now = 0

\* --------------------------------------------------------- initiateUpload
FalsyText(field) == field = <<>> \/ field[1] = ""
FalsyNumber(field) == field = <<>> \/ field[1] = 0

\* lines 55-62
NewSession(videoId, fileName, fileSize) ==
    [videoId |-> videoId, fileName |-> fileName, fileSize |-> fileSize,
     originalKey |-> OriginalKey(videoId, fileName), status |-> "uploading",
     createdAt |-> "createdAt"]

\* lines 31-38 and 70-74: what initiateUpload answers to a request body, the
\* videoId being the one uuidv4() returned.  The handler reads fileName and
\* fileSize of the body and nothing else.
InitiateUploadResponse(body, videoId) ==
    IF FalsyText(body.fileName) \/ FalsyNumber(body.fileSize)
    THEN [code |-> 400]
    ELSE [code |-> 200, videoId |-> videoId,
          uploadUrl |-> PresignedPut(OriginalKey(videoId, body.fileName[1]), PresignedUrlExpiry)]

\* lines 70-74: the write credentials in an answer of initiateUpload
WriteCredentials(response) == IF response.code = 200 THEN <<response.uploadUrl>> ELSE <<>>

\* lines 29-52: validation (400 and nothing else when it fails), uuidv4(),
\* getSignedUrl
InitiateUpload(r, fileName, fileSize, chunkCount) ==
    /\ Free(r)
    /\ UNCHANGED <<redis, objects, disk, now>>
    /\ LET body == [fileName |-> fileName, fileSize |-> fileSize, chunkCount |-> chunkCount]
       IN  IF InitiateUploadResponse(body, NoVideoId).code = 400
           THEN UNCHANGED <<req, issued>>
           ELSE \E videoId \in Vid \ issued :
                /\ issued' = issued \cup {videoId}
                /\ req' = [req EXCEPT ![r] =
                       [Start(r, "initiate", videoId, "I_setex") EXCEPT
                           !.body = body,
                           !.uploadSession = NewSession(videoId, fileName[1], fileSize[1])]]

\* lines 64-74
InitiateSetex(r) ==
    /\ req[r].pc = "I_setex"
    /\ Setex(req[r].videoId, SessionTTL, req[r].uploadSession)
    /\ req' = [req EXCEPT ![r] = Idle]
    /\ UNCHANGED <<issued, now, objects, disk>>

\* the client PUTs its source to the uploadUrl it was given (App: fetch(uploadUrl,
\* { method: 'PUT', body: selectedFile }))
ClientPut(videoId, video) ==
    /\ videoId \in DOMAIN store
    /\ store[videoId].originalKey \notin DOMAIN objects
    /\ objects' = Assign(objects, store[videoId].originalKey, video)
    /\ UNCHANGED <<redis, disk, issued, now, req>>

\* the client PUTs another source to the same uploadUrl, which S3 accepts until
\* the url expires
ClientPutAgain(videoId, video) ==
    /\ videoId \in DOMAIN store
    /\ store[videoId].originalKey \in DOMAIN objects
    /\ objects[store[videoId].originalKey] # video
    /\ objects' = Assign(objects, store[videoId].originalKey, video)
    /\ UNCHANGED <<redis, disk, issued, now, req>>

\* ------------------------------------------------------------ processVideo
\* a processVideo that stamps the record anew when it starts
ProcessingSessionRestamped(uploadSession) ==
    Assign(Assign(uploadSession, "status", "processing"), "createdAt", "restamped")

\* lines 105-108
ProcessingSession(uploadSession) == Assign(uploadSession, "status", "processing")

\* a run that marks the session chunked without publishing its lists
ChunkedSessionWithoutLists(uploadSession, chunkFiles, chunkS3Keys, chunkPresignedUrls) ==
    Assign(Assign(Assign(uploadSession, "status", "chunked"), "totalChunks", Len(chunkFiles)),
           "processedAt", "processedAt")

\* lines 223-227
ChunkedSession(uploadSession, chunkFiles, chunkS3Keys, chunkPresignedUrls) ==
    LET s1 == Assign(uploadSession, "status", "chunked")
        s2 == Assign(s1, "totalChunks", Len(chunkFiles))
        s3 == Assign(s2, "chunkKeys", chunkS3Keys)
        s4 == Assign(s3, "chunkUrls", chunkPresignedUrls)
    IN  Assign(s4, "processedAt", "processedAt")

\* lines 247-249 and 357-358
FailedSession(uploadSession, message) ==
    Assign(Assign(uploadSession, "status", "failed"), "error", message)

\* the catch block of processVideo (line 240) is entered with this error
ProcessThrows(r, message) ==
    req' = [req EXCEPT ![r].pc = "P_catchGet", ![r].error = message]

\* a handler that has not answered yet
Continue == [code |-> 0]

\* a processVideo that does not look the record up before going on
ProcessVideoEntryWithoutLookup(videoId, sessionData) ==
    IF videoId = NoVideoId THEN [code |-> 400] ELSE Continue

\* lines 88-103: 400 without a videoId, 404 without a record
ProcessVideoEntry(videoId, sessionData) ==
    IF videoId = NoVideoId THEN [code |-> 400]
    ELSE IF IsNull(sessionData) THEN [code |-> 404]
    ELSE Continue

\* lines 86-105
ProcessGet(r, videoId) ==
    /\ Free(r)
    /\ LET sessionData == RedisGet(videoId)
       IN  IF ProcessVideoEntry(videoId, sessionData) # Continue
           THEN UNCHANGED req
           ELSE req' = [req EXCEPT ![r] =
                   [Start(r, "process", videoId, "P_setProcessing") EXCEPT
                       !.uploadSession = sessionData]]
    /\ UNCHANGED <<redis, objects, disk, issued, now>>

\* lines 105-109
ProcessSetProcessing(r) ==
    /\ req[r].pc = "P_setProcessing"
    /\ LET uploadSession == ProcessingSession(req[r].uploadSession)
       IN  /\ Setex(req[r].videoId, SessionTTL, uploadSession)
           /\ req' = [req EXCEPT ![r].pc = "P_download", ![r].uploadSession = uploadSession,
                                 ![r].persisted = uploadSession.status]
    /\ UNCHANGED <<issued, now, objects, disk>>

\* lines 113-132: s3Client.send(GetObject), which throws when the bucket has no
\* such key (or cannot be reached), then the body piped to the temp file.
\* Only the write stream has an error listener: an error of the body stream
\* mid-download neither resolves nor rejects the promise (and, unhandled, can
\* end the process), so the handler takes no further step and the temp file
\* stays as far as it was written.
ProcessDownload(r) ==
    /\ req[r].pc = "P_download"
    /\ LET videoId == req[r].videoId
           originalKey == req[r].uploadSession.originalKey
       IN  \/ /\ originalKey \in DOMAIN objects
              /\ tempInput' = Assign(tempInput, videoId, objects[originalKey])
              /\ req' = [req EXCEPT ![r].pc = "P_segment"]
           \/ /\ ProcessThrows(r, SegmentationError)
              /\ UNCHANGED tempInput
           \/ /\ originalKey \in DOMAIN objects
              /\ tempInput' = Assign(tempInput, videoId, Partial)
              /\ req' = [req EXCEPT ![r].pc = "P_hung", ![r].error = SegmentationError]
    /\ UNCHANGED <<redis, objects, chunksDir, issued, now>>

\* lines 146-148: mkdirSync unless the directory exists
Mkdir(videoId) == IF videoId \in DOMAIN chunksDir THEN chunksDir ELSE Assign(chunksDir, videoId, {})

\* lines 134-172, synchronous: ffprobe (throws without a readable input),
\* mkdir, ffmpeg writing the segment files of the input into the directory
\* (or failing), readdir + filter + sort
ProcessSegment(r) ==
    /\ req[r].pc = "P_segment"
    /\ LET videoId == req[r].videoId
           readable == videoId \in DOMAIN tempInput /\ tempInput[videoId] # Partial
       IN  \/ /\ ~readable
              /\ ProcessThrows(r, SegmentationError)
              /\ UNCHANGED chunksDir
           \/ /\ readable
              /\ ProcessThrows(r, SegmentationError)
              /\ chunksDir' = Mkdir(videoId)
           \/ /\ readable
              /\ LET produced == 0..(tempInput[videoId] - 1)
                     files == Mkdir(videoId)[videoId] \cup produced
                 IN  /\ chunksDir' = Assign(chunksDir, videoId, files)
                     /\ req' = [req EXCEPT ![r].pc = "P_upload",
                                           ![r].produced = Cardinality(produced),
                                           ![r].chunkFiles = ListChunkFiles(files),
                                           ![r].chunkS3Keys = <<>>,
                                           ![r].chunkPresignedUrls = <<>>]
    /\ UNCHANGED <<redis, objects, tempInput, issued, now>>

\* lines 178-212, one iteration: readFileSync of chunkFiles[i] (throws when
\* the file is gone), PutObject, then its url, signed for ChunkUrlExpiry
ProcessUpload(r) ==
    /\ req[r].pc = "P_upload"
    /\ LET videoId == req[r].videoId
           i == Len(req[r].chunkS3Keys) + 1
           chunkFile == req[r].chunkFiles[i]
           chunkKey == ChunkKey(videoId, chunkFile)
           onDisk == videoId \in DOMAIN chunksDir /\ ChunkIndex(chunkFile) \in chunksDir[videoId]
       IN  \/ /\ onDisk
              /\ objects' = Assign(objects, chunkKey, "video/mp4")
              /\ req' = [req EXCEPT ![r].chunkS3Keys = Append(@, chunkKey),
                                    ![r].chunkPresignedUrls =
                                        Append(@, PresignedGet(chunkKey, ChunkUrlExpiry)),
                                    ![r].pc = IF i < Len(req[r].chunkFiles) THEN "P_upload"
                                              ELSE "P_cleanup"]
           \/ /\ ProcessThrows(r, SegmentationError)
              /\ UNCHANGED objects
    /\ UNCHANGED <<redis, disk, issued, now>>

\* the number of leading chunkFiles that unlinkSync finds in the directory
RECURSIVE Unlinkable(_, _, _)
Unlinkable(chunkFiles, files, i) ==
    IF i > Len(chunkFiles) \/ ChunkIndex(chunkFiles[i]) \notin files THEN i - 1
    ELSE Unlinkable(chunkFiles, files, i + 1)

\* lines 214-220, synchronous: unlinkSync of the input, unlinkSync of every
\* listed chunk file, rmdirSync.  Each throws when its file is not there (or
\* the directory is not empty); what was removed before stays removed.
ProcessCleanup(r) ==
    /\ req[r].pc = "P_cleanup"
    /\ LET videoId == req[r].videoId
           chunkFiles == req[r].chunkFiles
           files == IF videoId \in DOMAIN chunksDir THEN chunksDir[videoId] ELSE {}
           n == Unlinkable(chunkFiles, files, 1)
           left == files \ {ChunkIndex(chunkFiles[i]) : i \in 1..n}
       IN  IF videoId \notin DOMAIN tempInput
           THEN /\ ProcessThrows(r, SegmentationError)
                /\ UNCHANGED disk
           ELSE /\ tempInput' = Remove(tempInput, videoId)
                /\ IF n = Len(chunkFiles) /\ left = {} /\ videoId \in DOMAIN chunksDir
                   THEN /\ chunksDir' = Remove(chunksDir, videoId)
                        /\ req' = [req EXCEPT ![r].pc = "P_setChunked"]
                   ELSE /\ chunksDir' = IF videoId \in DOMAIN chunksDir
                                        THEN Assign(chunksDir, videoId, left) ELSE chunksDir
                        /\ ProcessThrows(r, SegmentationError)
    /\ UNCHANGED <<redis, objects, issued, now>>

\* lines 222-229
ProcessSetChunked(r) ==
    /\ req[r].pc = "P_setChunked"
    /\ LET uploadSession == ChunkedSession(req[r].uploadSession, req[r].chunkFiles,
                                           req[r].chunkS3Keys, req[r].chunkPresignedUrls)
       IN  /\ Setex(req[r].videoId, SessionTTL, uploadSession)
           /\ req' = [req EXCEPT ![r].pc = "P_respond", ![r].uploadSession = uploadSession,
                                 ![r].persisted = uploadSession.status]
    /\ UNCHANGED <<issued, now, objects, disk>>

\* lines 233-239
ProcessVideoResponse(videoId, chunkFiles, chunkPresignedUrls) ==
    [code |-> 200, videoId |-> videoId, totalChunks |-> Len(chunkFiles),
     chunkUrls |-> chunkPresignedUrls]

\* lines 233-239
ProcessRespond(r) ==
    /\ req[r].pc = "P_respond"
    /\ ProcessVideoResponse(req[r].videoId, req[r].chunkFiles, req[r].chunkPresignedUrls).code = 200
    /\ req' = [req EXCEPT ![r] = Idle]
    /\ UNCHANGED <<redis, objects, disk, issued, now>>

\* lines 244-246: the catch block reads the record again
ProcessCatchGet(r) ==
    /\ req[r].pc = "P_catchGet"
    /\ LET sessionData == RedisGet(req[r].videoId)
       IN  req' = [req EXCEPT ![r].pc = IF IsNull(sessionData) THEN "P_respondFail"
                                        ELSE "P_catchSetex",
                              ![r].uploadSession = sessionData]
    /\ UNCHANGED <<redis, objects, disk, issued, now>>

\* lines 247-250
ProcessCatchSetex(r) ==
    /\ req[r].pc = "P_catchSetex"
    /\ LET uploadSession == FailedSession(req[r].uploadSession, req[r].error)
       IN  /\ Setex(req[r].videoId, SessionTTL, uploadSession)
           /\ req' = [req EXCEPT ![r].pc = "P_respondFail", ![r].uploadSession = uploadSession,
                                 ![r].persisted = uploadSession.status]
    /\ UNCHANGED <<issued, now, objects, disk>>

\* lines 256-260
ProcessRespondFail(r) ==
    /\ req[r].pc = "P_respondFail"
    /\ req' = [req EXCEPT ![r] = Idle]
    /\ UNCHANGED <<redis, objects, disk, issued, now>>

\* ------------------------------------------------------------ analyzeVideo
\* an analyzeVideo without the status check
AnalyzeAcceptsAnyStatus(uploadSession) == TRUE

\* line 286: the handler goes on only for a record whose status is chunked
AnalyzeAccepts(uploadSession) == uploadSession.status = "chunked"

\* line 295
AnalyzingSession(uploadSession) == Assign(uploadSession, "status", "analyzing")

\* lines 369-371
CompletedSession(uploadSession, analysisResults) ==
    LET s1 == Assign(uploadSession, "status", "completed")
        s2 == Assign(s1, "analysisResults", analysisResults)
    IN  Assign(s2, "completedAt", "completedAt")

\* lines 267-292: 400 without a videoId, 404 without a record, 400 with the
\* current status for a record that is not chunked
AnalyzeVideoEntry(videoId, sessionData) ==
    IF videoId = NoVideoId THEN [code |-> 400]
    ELSE IF IsNull(sessionData) THEN [code |-> 404]
    ELSE IF ~AnalyzeAccepts(sessionData) THEN [code |-> 400, currentStatus |-> sessionData.status]
    ELSE Continue

\* an analyzeVideo whose rejection renews the expiry of the record it read
AnalyzeGetTouching(r, videoId) ==
    /\ Free(r)
    /\ LET sessionData == RedisGet(videoId)
       IN  IF AnalyzeVideoEntry(videoId, sessionData) # Continue
           THEN /\ UNCHANGED <<req, store, everChunked>>
                /\ ttl' = IF IsNull(sessionData) THEN ttl ELSE Assign(ttl, videoId, SessionTTL)
           ELSE /\ req' = [req EXCEPT ![r] =
                       [Start(r, "analyze", videoId, "A_setAnalyzing") EXCEPT
                           !.uploadSession = sessionData]]
                /\ UNCHANGED redis
    /\ UNCHANGED <<objects, disk, issued, now>>

\* lines 265-292
AnalyzeGet(r, videoId) ==
    /\ Free(r)
    /\ LET sessionData == RedisGet(videoId)
       IN  IF AnalyzeVideoEntry(videoId, sessionData) # Continue
           THEN UNCHANGED req
           ELSE req' = [req EXCEPT ![r] =
                   [Start(r, "analyze", videoId, "A_setAnalyzing") EXCEPT
                       !.uploadSession = sessionData]]
    /\ UNCHANGED <<redis, objects, disk, issued, now>>

\* lines 294-300
AnalyzeSetAnalyzing(r) ==
    /\ req[r].pc = "A_setAnalyzing"
    /\ LET uploadSession == AnalyzingSession(req[r].uploadSession)
           chunkUrls == IF Has(uploadSession, "chunkUrls") THEN uploadSession.chunkUrls ELSE <<>>
       IN  /\ Setex(req[r].videoId, SessionTTL, uploadSession)
           /\ req' = [req EXCEPT ![r].pc = IF Len(chunkUrls) = 0 THEN "A_post" ELSE "A_fetch",
                                 ![r].uploadSession = uploadSession,
                                 ![r].formData = <<>>,
                                 ![r].persisted = uploadSession.status]
    /\ UNCHANGED <<issued, now, objects, disk>>

\* an analyzeVideo that goes on to the batch request after an error
AnalysisThrowsThenPosts(r, message) ==
    req' = [req EXCEPT ![r].pc = "A_post", ![r].error = message]

\* the inner catch (line 354) is entered with this error
AnalysisThrows(r, message) ==
    req' = [req EXCEPT ![r].pc = "A_failSetex", ![r].error = message]

\* lines 324-329, one iteration: the chunk is fetched through its stored url,
\* which S3 answers with the object while it honours the url and with 403
\* (axios throws) afterwards; the request can fail for other reasons too
AnalyzeFetch(r) ==
    /\ req[r].pc = "A_fetch"
    /\ LET chunkUrls == req[r].uploadSession.chunkUrls
           i == Len(req[r].formData) + 1
       IN  \/ /\ Honoured(chunkUrls[i])
              /\ chunkUrls[i].key \in DOMAIN objects
              /\ req' = [req EXCEPT ![r].formData = Append(@, chunkUrls[i].key),
                                    ![r].pc = IF i < Len(chunkUrls) THEN "A_fetch" ELSE "A_post"]
           \/ AnalysisThrows(r, AnalysisError)
    /\ UNCHANGED <<redis, objects, disk, issued, now>>

\* lines 331-343: the one batch request
AnalyzePost(r) ==
    /\ req[r].pc = "A_post"
    /\ \/ req' = [req EXCEPT ![r].pc = "A_setCompleted", ![r].analysisResults = "response.data"]
       \/ AnalysisThrows(r, AnalysisError)
    /\ UNCHANGED <<redis, objects, disk, issued, now>>

\* lines 354-359
AnalyzeFailSetex(r) ==
    /\ req[r].pc = "A_failSetex"
    /\ LET uploadSession == FailedSession(req[r].uploadSession, req[r].error)
       IN  /\ Setex(req[r].videoId, SessionTTL, uploadSession)
           /\ req' = [req EXCEPT ![r].pc = "A_respondFail", ![r].uploadSession = uploadSession,
                                 ![r].persisted = uploadSession.status]
    /\ UNCHANGED <<issued, now, objects, disk>>

\* lines 361-365
AnalyzeRespondFail(r) ==
    /\ req[r].pc = "A_respondFail"
    /\ req' = [req EXCEPT ![r] = Idle]
    /\ UNCHANGED <<redis, objects, disk, issued, now>>

\* lines 368-372
AnalyzeSetCompleted(r) ==
    /\ req[r].pc = "A_setCompleted"
    /\ LET uploadSession == CompletedSession(req[r].uploadSession, req[r].analysisResults)
       IN  /\ Setex(req[r].videoId, SessionTTL, uploadSession)
           /\ req' = [req EXCEPT ![r].pc = "A_respond", ![r].uploadSession = uploadSession,
                                 ![r].persisted = uploadSession.status]
    /\ UNCHANGED <<issued, now, objects, disk>>

\* lines 374-380
AnalyzeRespond(r) ==
    /\ req[r].pc = "A_respond"
    /\ req' = [req EXCEPT ![r] = Idle]
    /\ UNCHANGED <<redis, objects, disk, issued, now>>

\* lines 381-388: the outer catch answers 500 without touching the record
AnalyzeRespondOuter(r) ==
    /\ req[r].pc = "A_respondOuter"
    /\ req' = [req EXCEPT ![r] = Idle]
    /\ UNCHANGED <<redis, objects, disk, issued, now>>

\* ------------------------------------- getChunks, getUploadStatus, streamVideo
\* Each reads the record once and answers; nothing is written.

\* a getChunks that signs the keys last to first
GetChunksResponseNewestFirst(uploadSession) ==
    IF IsNull(uploadSession)
    THEN [code |-> 404]
    ELSE IF ~Has(uploadSession, "chunkUrls") \/ Len(uploadSession.chunkUrls) = 0
    THEN [code |-> 400, status |-> uploadSession.status]
    ELSE LET n == Len(uploadSession.chunkKeys)
         IN  [code |-> 200, totalChunks |-> n,
              chunkUrls |-> [i \in 1..n |->
                                PresignedGet(uploadSession.chunkKeys[n + 1 - i], PlaybackUrlExpiry)]]

\* lines 396-435
GetChunksResponse(uploadSession) ==
    IF IsNull(uploadSession)
    THEN [code |-> 404]
    ELSE IF ~Has(uploadSession, "chunkUrls") \/ Len(uploadSession.chunkUrls) = 0
    THEN [code |-> 400, status |-> uploadSession.status]
    ELSE [code |-> 200,
          totalChunks |-> Len(uploadSession.chunkKeys),
          chunkUrls |-> [i \in 1..Len(uploadSession.chunkKeys) |->
                            PresignedGet(uploadSession.chunkKeys[i], PlaybackUrlExpiry)]]

\* lines 451-470
GetUploadStatusResponse(uploadSession) ==
    IF IsNull(uploadSession)
    THEN [code |-> 404]
    ELSE [code |-> 200, status |-> uploadSession.status,
          totalChunks |-> IF Has(uploadSession, "totalChunks")
                          THEN uploadSession.totalChunks ELSE 0]

\* lines 486-522
StreamVideoResponse(videoId, uploadSession) ==
    IF IsNull(uploadSession)
    THEN [code |-> 404]
    ELSE IF uploadSession.fileName = ""
    THEN [code |-> 400]
    ELSE [code |-> 200,
          playbackUrl |-> PresignedGet(OriginalKey(videoId, uploadSession.fileName),
                                       PlaybackUrlExpiry)]

\* a getChunks that reads the record with a command that renews its expiry
GetChunksRefreshingTtl(r, videoId) ==
    /\ Free(r)
    /\ GetChunksResponse(RedisGet(videoId)).code \in {200, 400, 404}
    /\ ttl' = IF videoId \in DOMAIN store THEN Assign(ttl, videoId, SessionTTL) ELSE ttl
    /\ UNCHANGED <<store, everChunked, objects, disk, issued, now, req>>

GetChunks(r, videoId) ==
    /\ Free(r)
    /\ GetChunksResponse(RedisGet(videoId)).code \in {200, 400, 404}
    /\ UNCHANGED vars

GetUploadStatus(r, videoId) ==
    /\ Free(r)
    /\ GetUploadStatusResponse(RedisGet(videoId)).code \in {200, 404}
    /\ UNCHANGED vars

StreamVideo(r, videoId) ==
    /\ Free(r)
    /\ StreamVideoResponse(videoId, RedisGet(videoId)).code \in {200, 400, 404}
    /\ UNCHANGED vars

\* ------------------------------------------------- session store failures
\* the first redis.get of a handler throws: processVideo enters its catch
\* block, analyzeVideo its outer catch, the others answer 500
FirstGetThrows(r, op, videoId) ==
    /\ Free(r)
    /\ req' = [req EXCEPT ![r] =
          IF op = "process"
          THEN [Start(r, op, videoId, "P_catchGet") EXCEPT !.error = RedisError]
          ELSE [Start(r, op, videoId, "A_respondOuter") EXCEPT !.error = RedisError]]
    /\ UNCHANGED <<redis, objects, disk, issued, now>>

\* a later Redis command of handler r throws (the command did not take effect)
RedisThrows(r) ==
    /\ UNCHANGED <<redis, objects, disk, issued, now>>
    /\ \/ /\ req[r].pc \in {"P_setProcessing", "P_setChunked"}
          /\ ProcessThrows(r, RedisError)
       \/ \* lines 252-254: swallowed, the response carries the first error
          /\ req[r].pc \in {"P_catchGet", "P_catchSetex"}
          /\ req' = [req EXCEPT ![r].pc = "P_respondFail"]
       \/ /\ req[r].pc \in {"A_setAnalyzing", "A_failSetex", "A_setCompleted"}
          /\ req' = [req EXCEPT ![r].pc = "A_respondOuter", ![r].error = RedisError]
       \/ \* lines 75-82
          /\ req[r].pc = "I_setex"
          /\ req' = [req EXCEPT ![r] = Idle]

\* the key's time to live runs out: no write for SessionTTL seconds
Expire(videoId) ==
    /\ videoId \in DOMAIN store
    /\ store' = Remove(store, videoId)
    /\ ttl' = Remove(ttl, videoId)
    /\ UNCHANGED <<objects, disk, issued, now, req, everChunked>>

\* seconds pass: every key has that much less to live, and Redis drops the keys
\* whose time is up
Tick(seconds) ==
    /\ DOMAIN store # {}
    /\ now < MaxClock * seconds
    /\ now' = now + seconds
    /\ LET alive == {k \in DOMAIN store : ttl[k] > seconds}
       IN  /\ store' = [k \in alive |-> store[k]]
           /\ ttl' = [k \in alive |-> ttl[k] - seconds]
    /\ UNCHANGED <<objects, disk, issued, req, everChunked>>

\* ---------------------------------------------------------- specifications
Handlers(r) ==
    \/ \E fileName \in FileNames, fileSize \in FileSizes, chunkCount \in ChunkCounts :
            InitiateUpload(r, fileName, fileSize, chunkCount)
    \/ InitiateSetex(r)
    \/ \E videoId \in Vid \cup {NoVideoId} : ProcessGet(r, videoId)
    \/ ProcessSetProcessing(r)
    \/ ProcessDownload(r)
    \/ ProcessSegment(r)
    \/ ProcessUpload(r)
    \/ ProcessCleanup(r)
    \/ ProcessSetChunked(r)
    \/ ProcessRespond(r)
    \/ ProcessCatchGet(r)
    \/ ProcessCatchSetex(r)
    \/ ProcessRespondFail(r)
    \/ \E videoId \in Vid \cup {NoVideoId} : AnalyzeGet(r, videoId)
    \/ AnalyzeSetAnalyzing(r)
    \/ AnalyzeFetch(r)
    \/ AnalyzePost(r)
    \/ AnalyzeFailSetex(r)
    \/ AnalyzeRespondFail(r)
    \/ AnalyzeSetCompleted(r)
    \/ AnalyzeRespond(r)
    \/ \E videoId \in Vid : GetChunks(r, videoId)
    \/ \E videoId \in Vid : GetUploadStatus(r, videoId)
    \/ \E videoId \in Vid : StreamVideo(r, videoId)

\* the handlers, served concurrently in MaxReq slots, and keys that expire
Next ==
    \/ \E r \in Req : Handlers(r)
    \/ \E videoId \in Vid, video \in Videos : ClientPut(videoId, video)
    \/ \E videoId \in Vid : Expire(videoId)

Spec == Init /\ [][Next]_vars

\* one request at a time, with Redis commands that may throw
NextFault ==
    \/ Handlers(1)
    \/ \E op \in {"process", "analyze"}, videoId \in Vid : FirstGetThrows(1, op, videoId)
    \/ RedisThrows(1)
    \/ AnalyzeRespondOuter(1)
    \/ \E videoId \in Vid, video \in Videos : ClientPut(videoId, video)
    \/ \E videoId \in Vid : Expire(videoId)

SpecFault == Init /\ [][NextFault]_vars

\* one request at a time, a client that may replace its source, and a clock
TickSeconds == SessionTTL \div Ticks

NextClient ==
    \/ Handlers(1)
    \/ \E videoId \in Vid, video \in Videos : ClientPut(videoId, video)
    \/ \E videoId \in Vid, video \in Videos : ClientPutAgain(videoId, video)
    \/ Tick(TickSeconds)

SpecClient == Init /\ [][NextClient]_vars

\* initiateUpload alone, over the request bodies a client can send
WideNames == FileNames \cup {<<"b.mp4">>}
WideSizes == {<<>>} \cup {<<n>> : n \in (-MaxSize)..MaxSize}
WideCounts == {<<>>} \cup {<<n>> : n \in 1..MaxCount}

NextInitiate ==
    \/ \E fileName \in WideNames, fileSize \in WideSizes, chunkCount \in WideCounts :
            InitiateUpload(1, fileName, fileSize, chunkCount)
    \/ InitiateSetex(1)

SpecInitiate == Init /\ [][NextInitiate]_vars

\* ------------------------------------------------ trackProgress (the spec's
\* recordChunkComplete).  The route POST /progress -> trackProgress and its
\* caller are in the repository, the handler is not: it is modelled from the
\* specification of the Upload Coordinator.

\* initiate with a chunkCount: the session as created, totalChunks as declared
\* and nothing recorded yet
DeclaredSession(videoId, fileName, fileSize, chunkCount) ==
    Assign(Assign(NewSession(videoId, fileName, fileSize), "totalChunks", chunkCount),
           "completedChunkIndices", {})

\* a recordChunkComplete that takes any index
TrackProgressEntryAnyIndex(chunkIndex, sessionData) ==
    IF IsNull(sessionData) THEN [code |-> 404] ELSE Continue

\* NotFound for an unknown or expired session, InvalidRequest for an index
\* outside [0, totalChunks)
TrackProgressEntry(chunkIndex, sessionData) ==
    IF IsNull(sessionData) THEN [code |-> 404]
    ELSE IF chunkIndex < 0 \/ chunkIndex >= sessionData.totalChunks THEN [code |-> 400]
    ELSE Continue

\* set-union semantics on the index
RecordedSession(uploadSession, chunkIndex) ==
    Assign(uploadSession, "completedChunkIndices",
           uploadSession.completedChunkIndices \cup {chunkIndex})

\* the per-key mutual exclusion of the read-modify-write: the key of videoId
\* is held by the call that has read the record and not yet written it
KeyHeld(videoId) ==
    \E q \in Req : req[q].op = "track" /\ req[q].videoId = videoId /\ req[q].pc = "T_setex"

\* a recordChunkComplete request arrives (the caller posts videoId,
\* chunkIndex and status 'completed')
TrackProgress(r, videoId, chunkIndex) ==
    /\ Free(r)
    /\ req' = [req EXCEPT ![r] =
           [Start(r, "track", videoId, "T_get") EXCEPT !.body = [chunkIndex |-> chunkIndex]]]
    /\ UNCHANGED <<redis, objects, disk, issued, now>>

\* a read-modify-write that does not wait for the key
TrackGetWithoutExclusion(r) ==
    /\ req[r].pc = "T_get"
    /\ LET sessionData == RedisGet(req[r].videoId)
       IN  req' = [req EXCEPT ![r] =
                      IF TrackProgressEntry(req[r].body.chunkIndex, sessionData) # Continue
                      THEN Idle
                      ELSE [req[r] EXCEPT !.pc = "T_setex", !.uploadSession = sessionData]]
    /\ UNCHANGED <<redis, objects, disk, issued, now>>

\* the read of the read-modify-write, once the key is free
TrackGet(r) ==
    /\ req[r].pc = "T_get"
    /\ ~KeyHeld(req[r].videoId)
    /\ LET sessionData == RedisGet(req[r].videoId)
       IN  req' = [req EXCEPT ![r] =
                      IF TrackProgressEntry(req[r].body.chunkIndex, sessionData) # Continue
                      THEN Idle
                      ELSE [req[r] EXCEPT !.pc = "T_setex", !.uploadSession = sessionData]]
    /\ UNCHANGED <<redis, objects, disk, issued, now>>

\* the write: updates completedChunkIndices, refreshes the session TTL, and
\* gives the key up
TrackSetex(r) ==
    /\ req[r].pc = "T_setex"
    /\ Setex(req[r].videoId, SessionTTL,
             RecordedSession(req[r].uploadSession, req[r].body.chunkIndex))
    /\ req' = [req EXCEPT ![r] = Idle]
    /\ UNCHANGED <<issued, now, objects, disk>>

\* a session initiated with a chunkCount, and its chunks reported by
\* concurrent calls, in and out of range, while the clock runs
ChunkIndices == (-1)..MaxCount

ProgressInit ==
    /\ \E chunkCount \in 1..MaxCount :
           store = [k \in {1} |-> DeclaredSession(1, "a.mp4", 1000, chunkCount)]
    /\ ttl = [k \in {1} |-> SessionTTL]
    /\ objects = [k \in {} |-> 0]
    /\ tempInput = [k \in {} |-> 0]
    /\ chunksDir = [k \in {} |-> {}]
    /\ issued = {1}
    /\ req = [r \in Req |-> Idle]
    /\ everChunked = {}
    /\ now = 0

ProgressNext ==
    \/ \E r \in Req, chunkIndex \in ChunkIndices : TrackProgress(r, 1, chunkIndex)
    \/ \E r \in Req : TrackGet(r)
    \/ \E r \in Req : TrackSetex(r)
    \/ Tick(TickSeconds)

SpecProgress == ProgressInit /\ [][ProgressNext]_vars

\* one segmentation run over the numbers of segment files a transcoder run can
\* leave in the directory, from the state in which processVideo has downloaded
\* the source of a session
PadLimit == 10 ^ PadWidth
FileCounts == (1..SmallFiles) \cup ((PadLimit - 1)..(PadLimit + OverPad))

SegmentInit ==
    LET uploadSession == ProcessingSession(NewSession(1, "a.mp4", 1000))
    IN  /\ store = [k \in {1} |-> uploadSession]
        /\ ttl = [k \in {1} |-> SessionTTL]
        /\ \E video \in FileCounts :
               /\ objects = [k \in {uploadSession.originalKey} |-> video]
               /\ tempInput = [k \in {1} |-> video]
        /\ chunksDir = [k \in {} |-> {}]
        /\ issued = {1}
        /\ req = [r \in Req |-> IF r = 1
                                THEN [Start(r, "process", 1, "P_segment") EXCEPT
                                         !.uploadSession = uploadSession,
                                         !.persisted = "processing"]
                                ELSE Idle]
        /\ everChunked = {}
        /\ now = 0

SegmentNext ==
    \/ ProcessSegment(1)
    \/ ProcessUpload(1)
    \/ ProcessCleanup(1)
    \/ ProcessSetChunked(1)
    \/ ProcessRespond(1)

SpecSegment == SegmentInit /\ [][SegmentNext]_vars

\* ================================================================== claims
Sessions == DOMAIN store
Kept == DOMAIN store \cap DOMAIN store'

\* C1: a stored status is analyzing only for a session whose stored status has
\* been chunked before, and analyzeVideo writes analyzing only from a record it
\* read with status chunked.
C1_AnalyzingOnlyAfterChunked ==
    /\ \A v \in Sessions : store[v].status = "analyzing" => v \in everChunked
    /\ \A r \in Req : req[r].pc = "A_setAnalyzing" => req[r].uploadSession.status = "chunked"

C1_Witness ==
    \E v \in Sessions : store[v].status = "analyzing" /\ v \in everChunked

\* C2: once the stored status of a session is completed or failed, no step
\* changes it.
C2_TerminalStaysTerminal ==
    [][\A v \in Kept : store[v].status \in {"completed", "failed"}
                          => store'[v].status = store[v].status]_vars

\* C3: whenever a dispatch has failed on a session and its segment list is
\* still in the record, analyzeVideo accepts the session again.
C3_RetryAfterFailedDispatchAccepted ==
    \A v \in Sessions :
        (store[v].status = "failed" /\ store[v].error = AnalysisError /\ Has(store[v], "chunkKeys"))
            => AnalyzeAccepts(store[v])

\* C4: a stored record holds an analysis result if and only if its status is
\* completed.
C4_ResultIffCompleted ==
    \A v \in Sessions : Has(store[v], "analysisResults") <=> store[v].status = "completed"

\* C5 as claimed: a stored record holds chunkKeys if and only if its status is
\* chunked, analyzing or completed.
C5_SegmentRefsIffStatus ==
    \A v \in Sessions :
        Has(store[v], "chunkKeys") <=> store[v].status \in {"chunked", "analyzing", "completed"}

\* C5 as amended: a stored record whose status is chunked, analyzing or
\* completed holds chunkKeys, and one whose status is uploading holds none; a
\* failed or processing record may still hold the chunkKeys of an earlier
\* segmentation.
C5_SegmentRefsWhenSegmented ==
    \A v \in Sessions :
        /\ store[v].status \in {"chunked", "analyzing", "completed"} => Has(store[v], "chunkKeys")
        /\ store[v].status = "uploading" => ~Has(store[v], "chunkKeys")

C5_Witness ==
    \E v \in Sessions : store[v].status = "failed" /\ Has(store[v], "chunkKeys")

\* C6: every change of a stored status follows an edge of the state machine
\* uploading -> processing -> chunked -> analyzing -> completed, or leads from
\* a non-terminal status to failed.
StatusEdges ==
    {<<"uploading", "processing">>, <<"processing", "chunked">>, <<"chunked", "analyzing">>,
     <<"analyzing", "completed">>}
        \cup {<<s, "failed">> : s \in {"uploading", "processing", "chunked", "analyzing"}}

C6_StatusFollowsEdges ==
    [][\A v \in Kept : store'[v].status # store[v].status
                          => <<store[v].status, store'[v].status>> \in StatusEdges]_vars

\* C7: a processVideo run in which a segmentation step has failed, and which
\* takes no further step on the record, has stored status failed with a
\* non-empty error.
C7_StepFailureStoresFailed ==
    \A r \in Req :
        (/\ req[r].op = "process"
         /\ req[r].error = SegmentationError
         /\ req[r].pc \in {"P_hung", "P_respondFail"}
         /\ req[r].videoId \in Sessions)
            => /\ req[r].persisted = "failed"
               /\ req[r].uploadSession.error # ""

\* C8: when the analysis of a chunked session fails, the record analyzeVideo
\* stores has status failed, a non-empty error and no analysis result.
C8_FailedDispatchHasNoResult ==
    \A r \in Req :
        req[r].pc = "A_respondFail"
            => /\ req[r].uploadSession.status = "failed"
               /\ req[r].uploadSession.error # ""
               /\ ~Has(req[r].uploadSession, "analysisResults")

\* C9: a processVideo or analyzeVideo call that is about to send a failure
\* response for a session in the store has not left processing or analyzing as
\* the last status it stored.
C9_FailurePersistedBeforeResponse ==
    \A r \in Req :
        (req[r].pc \in {"P_respondFail", "A_respondFail", "A_respondOuter"}
            /\ req[r].videoId \in Sessions)
            => req[r].persisted \notin {"processing", "analyzing"}

\* C10: the listed segment files and the published chunkKeys are in segment
\* index order: entry i is segment i.
C10_SegmentsInIndexOrder ==
    /\ \A r \in Req : \A i \in 1..Len(req[r].chunkFiles) :
           req[r].chunkFiles[i] = ChunkName(i - 1)
    /\ \A v \in Sessions : Has(store[v], "chunkKeys") =>
           \A i \in 1..Len(store[v].chunkKeys) :
               store[v].chunkKeys[i] = ChunkKey(v, ChunkName(i - 1))

\* the processVideo calls on videoId that have not ended
Processing(videoId) == {r \in Req : req[r].op = "process" /\ req[r].videoId = videoId}

\* C11: a record that holds chunkKeys holds as many chunkUrls, totalChunks is
\* that number and chunkUrls[i] reads chunkKeys[i]; the record a successful
\* processVideo has stored is chunked and lists as many segments as ffmpeg
\* produced in that call.
C11_ChunkListsMatchProduced ==
    /\ \A v \in Sessions : Has(store[v], "chunkKeys") =>
           /\ Len(store[v].chunkUrls) = Len(store[v].chunkKeys)
           /\ store[v].totalChunks = Len(store[v].chunkKeys)
           /\ \A i \in 1..Len(store[v].chunkKeys) :
                  /\ store[v].chunkUrls[i].method = "GET"
                  /\ store[v].chunkUrls[i].key = store[v].chunkKeys[i]
                  /\ store[v].chunkUrls[i].expiresIn = ChunkUrlExpiry
    /\ \A r \in Req : req[r].pc = "P_respond" =>
           /\ req[r].uploadSession.status = "chunked"
           /\ req[r].uploadSession.totalChunks = req[r].produced
           /\ Len(req[r].uploadSession.chunkKeys) = req[r].produced

\* C12: while no processVideo call on a session is running, TEMP_DIR holds
\* neither its input file nor its segment directory.
C12_NoIntermediatesAfterProcess ==
    \A v \in Vid : Processing(v) = {} => v \notin DOMAIN tempInput /\ v \notin DOMAIN chunksDir

\* C13: processVideo does not store chunkKeys and processedAt into a record
\* that holds them, and analyzeVideo does not store analysisResults and
\* completedAt into a record that holds them.
C13_FieldsAssignedOnce ==
    [][\A r \in Req :
          /\ (req[r].pc = "P_setChunked" /\ req'[r].pc = "P_respond"
                 /\ req[r].videoId \in Sessions)
                => /\ ~Has(store[req[r].videoId], "chunkKeys")
                   /\ ~Has(store[req[r].videoId], "processedAt")
          /\ (req[r].pc = "A_setCompleted" /\ req'[r].pc = "A_respond"
                 /\ req[r].videoId \in Sessions)
                => /\ ~Has(store[req[r].videoId], "analysisResults")
                   /\ ~Has(store[req[r].videoId], "completedAt")]_vars

\* the program counters at which a handler's next step is a redis.setex
SetexPcs ==
    {"I_setex", "P_setProcessing", "P_setChunked", "P_catchSetex", "A_setAnalyzing",
     "A_failSetex", "A_setCompleted"}

\* C14: for a videoId without a record (never created, or expired) each of
\* the five handlers answers 404; processVideo and analyzeVideo go past their
\* lookup only for a videoId that has a record, and a record appears in the
\* store only by the redis.setex of a handler that was already running.
C14_UnknownIdNotFound ==
    /\ [](\A v \in Vid \ Sessions :
            /\ ProcessVideoEntry(v, RedisGet(v)).code = 404
            /\ AnalyzeVideoEntry(v, RedisGet(v)).code = 404
            /\ GetChunksResponse(RedisGet(v)).code = 404
            /\ GetUploadStatusResponse(RedisGet(v)).code = 404
            /\ StreamVideoResponse(v, RedisGet(v)).code = 404)
    /\ [][/\ \A r \in Req :
               (req[r].pc = "idle" /\ req'[r].pc \in {"P_setProcessing", "A_setAnalyzing"})
                   => /\ req'[r].videoId \in Sessions
                      /\ req'[r].uploadSession = store[req'[r].videoId]
          /\ \A v \in Vid :
               (v \notin Sessions /\ v \in DOMAIN store')
                   => \E r \in Req : req[r].videoId = v /\ req[r].pc \in SetexPcs]_vars

C14_Witness ==
    \E v \in issued : v \notin Sessions /\ v \in everChunked

\* a request body with a name and a strictly positive size
ValidBody(body) ==
    /\ body.fileName # <<>> /\ body.fileName[1] # ""
    /\ body.fileSize # <<>> /\ body.fileSize[1] > 0

\* C15: initiateUpload goes on to create a session only for a body with a
\* non-empty fileName and a strictly positive fileSize, so every stored
\* record has such a name and size.
C15_InitiateRejectsInvalid ==
    /\ \A r \in Req : req[r].pc = "I_setex" => ValidBody(req[r].body)
    /\ \A v \in Sessions : store[v].fileName # "" /\ store[v].fileSize > 0

\* C16: the answer of an accepted initiateUpload carries one write credential
\* when the body has no chunkCount, and chunkCount credentials, with
\* totalChunks = chunkCount in the new record, when it has one; the new
\* record's status is uploading.
C16_CredentialPerChunk ==
    \A r \in Req : (req[r].pc = "I_setex" /\ ValidBody(req[r].body)) =>
        LET body == req[r].body
            credentials == WriteCredentials(InitiateUploadResponse(body, req[r].videoId))
        IN  /\ req[r].uploadSession.status = "uploading"
            /\ IF body.chunkCount = <<>>
               THEN Len(credentials) = 1
               ELSE /\ Len(credentials) = body.chunkCount[1]
                    /\ Has(req[r].uploadSession, "totalChunks")
                    /\ req[r].uploadSession.totalChunks = body.chunkCount[1]

\* the access descriptors in an answer of getChunks or streamVideo, and the
\* object keys they give access to
Descriptors(response) ==
    IF response.code # 200 THEN <<>>
    ELSE IF Has(response, "chunkUrls") THEN response.chunkUrls
    ELSE <<response.playbackUrl>>

Keys(descriptors) == [i \in 1..Len(descriptors) |-> descriptors[i].key]

Stored(videoId) == {k \in DOMAIN objects : k.videoId = videoId}

\* C18: for a session of which the bucket holds neither the original nor a
\* segment, getChunks and streamVideo answer 400 and no descriptor.
C18_NotReadyBeforeUpload ==
    \A v \in Sessions : Stored(v) = {} =>
        \A response \in {GetChunksResponse(store[v]), StreamVideoResponse(v, store[v])} :
            response.code = 400 /\ Descriptors(response) = <<>>

\* C19: a getChunks, getUploadStatus or streamVideo call leaves every stored
\* record and every key's remaining time to live as they were, and the next
\* getChunks or streamVideo call on a session answers descriptors for the
\* same keys in the same order.
C19_ReadsChangeNothing ==
    [][(\E r \in Req, videoId \in Vid :
           GetChunks(r, videoId) \/ GetUploadStatus(r, videoId) \/ StreamVideo(r, videoId))
        => /\ store' = store
           /\ ttl' = ttl
           /\ \A v \in Sessions :
                 /\ Keys(Descriptors(GetChunksResponse(RedisGet(v))))'
                       = Keys(Descriptors(GetChunksResponse(RedisGet(v))))
                 /\ Keys(Descriptors(StreamVideoResponse(v, RedisGet(v))))'
                       = Keys(Descriptors(StreamVideoResponse(v, RedisGet(v))))]_vars

C19_Witness ==
    \E v \in Sessions :
        /\ ttl[v] < SessionTTL
        /\ Has(store[v], "chunkKeys")
        /\ Free(1)
        /\ GetChunksResponse(RedisGet(v)).code = 200

\* handler r performs its redis.setex in this step
Writes(r) == req[r].pc \in SetexPcs /\ req'[r].pc # req[r].pc

\* C20: every key has a time to live of at most SessionTTL; a step that
\* creates or changes the record of videoId, and every redis.setex on it,
\* leaves the key with exactly SessionTTL; the time to live rises in no other
\* step; it falls only by the time that has passed, for every key alike; and
\* a key goes exactly when its time is up.
C20_TtlResetByEveryWrite ==
    /\ [](/\ DOMAIN ttl = DOMAIN store
          /\ \A v \in Sessions : ttl[v] > 0 /\ ttl[v] <= SessionTTL)
    /\ [][\A v \in DOMAIN store' :
            /\ (v \notin Sessions \/ store'[v] # store[v]) => ttl'[v] = SessionTTL
            /\ (\E r \in Req : req[r].videoId = v /\ Writes(r)) => ttl'[v] = SessionTTL
            /\ (v \in Sessions /\ ttl'[v] > ttl[v])
                   => \E r \in Req : req[r].videoId = v /\ Writes(r)
            /\ (v \in Sessions /\ ttl'[v] < ttl[v]) => ttl'[v] = ttl[v] - TickSeconds]_vars
    /\ [][\A v \in Sessions : v \notin DOMAIN store' => ttl[v] <= TickSeconds]_vars
    /\ [][Tick(TickSeconds)
            => \A v \in Sessions : IF ttl[v] <= TickSeconds THEN v \notin DOMAIN store'
                                    ELSE ttl'[v] = ttl[v] - TickSeconds]_vars

C20_Witness ==
    \E r \in Req :
        /\ req[r].pc = "A_setCompleted"
        /\ req[r].videoId \in Sessions
        /\ ttl[req[r].videoId] < SessionTTL

\* the fields initiateUpload sets and no other handler assigns
CreationFields == {"videoId", "fileName", "fileSize", "originalKey", "createdAt"}

SameCreation(a, b) == \A f \in CreationFields : Has(a, f) /\ Has(b, f) /\ a[f] = b[f]

\* the handlers that hold a parsed copy of the record of videoId
Holding(videoId) == {r \in Req : req[r].videoId = videoId /\ ~IsNull(req[r].uploadSession)}

\* C21: videoId, fileName, fileSize, originalKey and createdAt of a session
\* are the ones initiateUpload stored: no step changes them in a stored
\* record, every copy a handler holds carries the stored values, and every
\* write of processVideo or analyzeVideo stores the values of its copy.
C21_CreationFieldsKept ==
    /\ [](\A v \in Sessions :
            /\ store[v].videoId = v
            /\ store[v].originalKey = OriginalKey(v, store[v].fileName)
            /\ \A r \in Holding(v) : SameCreation(req[r].uploadSession, store[v]))
    /\ [](\A v \in Vid : \A r, q \in Holding(v) :
            SameCreation(req[r].uploadSession, req[q].uploadSession))
    /\ [][/\ \A v \in Kept : SameCreation(store[v], store'[v])
          /\ \A r \in Req : (Writes(r) /\ req[r].videoId \in DOMAIN store')
                => SameCreation(store'[req[r].videoId], req[r].uploadSession)]_vars

C21_Witness ==
    \E v \in Sessions :
        /\ store[v].status = "failed"
        /\ Has(store[v], "analysisResults")
        /\ \E r \in Holding(v) : req[r].op = "process" /\ req[r].pc = "P_setChunked"

\* the program counters of an analyzeVideo call after its batch request
AfterPost == {"A_failSetex", "A_respondFail", "A_setCompleted", "A_respond", "A_respondOuter"}

\* C22: an analyzeVideo call fetches segments and submits its batch request
\* only after its redis.setex of status analyzing; it reaches the request only
\* with every entry of its chunkKeys fetched, once each and in that order;
\* a failed fetch leads to the catch block without a request; and after its
\* one request, failed or not, the call makes no other request or fetch.
C22_OneBatchInOrder ==
    /\ [](\A r \in Req :
            /\ req[r].pc \in {"A_fetch", "A_post"} => req[r].persisted = "analyzing"
            /\ req[r].pc = "A_fetch" =>
                   /\ Len(req[r].formData) < Len(req[r].uploadSession.chunkKeys)
                   /\ req[r].formData
                          = SubSeq(req[r].uploadSession.chunkKeys, 1, Len(req[r].formData))
            /\ req[r].pc = "A_post" =>
                   /\ req[r].formData = req[r].uploadSession.chunkKeys
                   /\ \A i, j \in 1..Len(req[r].formData) :
                          req[r].formData[i] = req[r].formData[j] => i = j)
    /\ [][\A r \in Req :
            /\ (req[r].pc = "A_fetch" /\ req'[r] # req[r])
                  => \/ req'[r].pc = "A_failSetex" /\ req'[r].formData = req[r].formData
                     \/ /\ req'[r].pc \in {"A_fetch", "A_post"}
                        /\ Len(req'[r].formData) = Len(req[r].formData) + 1
            /\ (req[r].pc = "A_post" /\ req'[r] # req[r])
                  => req'[r].pc \in {"A_setCompleted", "A_failSetex"}
            /\ req[r].pc \in AfterPost => req'[r].pc \in AfterPost \cup {"idle"}]_vars

C22_Witness ==
    \E r \in Req :
        /\ req[r].pc = "A_failSetex"
        /\ Len(req[r].uploadSession.chunkKeys) > 1
        /\ req[r].formData = req[r].uploadSession.chunkKeys

\* C23: for a record whose status is not chunked analyzeVideo answers 400
\* with the record's current status, and the call ends there: no step of the
\* handler follows (no fetch from the bucket, no batch request), and the
\* store, every key's time to live, the bucket and TEMP_DIR are as before.
C23_RejectedDispatchChangesNothing ==
    /\ [](\A v \in Sessions : store[v].status # "chunked" =>
            AnalyzeVideoEntry(v, RedisGet(v)) = [code |-> 400, currentStatus |-> store[v].status])
    /\ [][\A r \in Req, v \in Sessions :
            (store[v].status # "chunked" /\ AnalyzeGet(r, v))
                => /\ store' = store /\ ttl' = ttl
                   /\ objects' = objects /\ tempInput' = tempInput /\ chunksDir' = chunksDir
                   /\ req' = req]_vars

C23_Witness ==
    \E v \in Sessions :
        /\ store[v].status = "completed"
        /\ ttl[v] < SessionTTL
        /\ Free(1)

\* the processVideo calls that are between their download and their cleanup
Segmenting ==
    {r \in Req : req[r].op = "process"
                    /\ req[r].pc \in {"P_download", "P_segment", "P_upload", "P_cleanup"}}

\* C24: the number of processVideo calls segmenting at the same time stays
\* under a bound that does not grow with the number of requests: of MaxReq
\* requests that have arrived, at least one is not segmenting.
C24_SegmentationsBounded ==
    Cardinality(Segmenting) < MaxReq

\* the indices recorded for a session
Completed(uploadSession) == uploadSession.completedChunkIndices

C27_NoStaleOverwrite ==
    [][\A r \in Req :
          (/\ req[r].op = "process" /\ Writes(r)
           /\ req[r].videoId \in Kept
           /\ ~Has(req[r].uploadSession, "analysisResults")
           /\ store[req[r].videoId].status = "completed")
              => /\ store'[req[r].videoId].status = "completed"
                 /\ Has(store'[req[r].videoId], "analysisResults")]_vars

\* the local files the next step of processVideo call r reads or removes
\* are in TEMP_DIR
LocalFilesPresent(r) ==
    LET videoId == req[r].videoId
        files == IF videoId \in DOMAIN chunksDir THEN chunksDir[videoId] ELSE {}
        listed == {ChunkIndex(req[r].chunkFiles[i]) : i \in 1..Len(req[r].chunkFiles)}
    IN  CASE req[r].pc = "P_segment" -> videoId \in DOMAIN tempInput
          [] req[r].pc = "P_upload" ->
                 ChunkIndex(req[r].chunkFiles[Len(req[r].chunkS3Keys) + 1]) \in files
          [] req[r].pc = "P_cleanup" ->
                 videoId \in DOMAIN tempInput /\ videoId \in DOMAIN chunksDir /\ files = listed
          [] OTHER -> TRUE

\* no call in flight has met an error and the record holds none
NoFailureSoFar ==
    /\ \A q \in Req : req[q].error = ""
    /\ \A v \in Sessions : ~Has(store[v], "error")

\* C28: while no external step has failed, a processVideo call that has
\* downloaded its source finds the input file and the segment files it
\* listed in TEMP_DIR at every later step, whatever other processVideo calls
\* on the session do meanwhile, and so does not end in its catch block.
C28_ConcurrentRunsDoNotInterfere ==
    /\ [](NoFailureSoFar => \A r \in Req : LocalFilesPresent(r))
    /\ [][NoFailureSoFar =>
            \A r \in Req : (req[r].pc = "P_cleanup" /\ req'[r].pc # req[r].pc)
                                => req'[r].pc = "P_setChunked"]_vars

\* C29: every call in flight has a next step to take (so that, each step
\* being taken in the end, the call sends its response), and when no call is
\* in flight no stored status is processing or analyzing.
C29_EveryCallEnds ==
    /\ \A r \in Req : req[r].pc # "idle" => ENABLED Handlers(r)
    /\ (\A r \in Req : req[r].pc = "idle")
           => \A v \in Sessions : store[v].status \notin {"processing", "analyzing"}

\* C30: while a chunked record is in the store S3 honours every url in its
\* chunkUrls, and so it does every url an analyzeVideo call is about to fetch.
C30_StoredUrlsHonoured ==
    /\ \A v \in Sessions : store[v].status = "chunked" =>
           \A i \in 1..Len(store[v].chunkUrls) : Honoured(store[v].chunkUrls[i])
    /\ \A r \in Req : req[r].pc = "A_fetch" =>
           Honoured(req[r].uploadSession.chunkUrls[Len(req[r].formData) + 1])
====
